---- MODULE Spec2Model ----
(***************************************************************************)
(* Model of mcp-server-local-web-search.                                   *)
(*                                                                         *)
(*   src/index.ts      : tool-call handler -> search(), which drives the   *)
(*                       local-web-search browser session and a p-queue    *)
(*   src/src/index.ts  : tool-call handler -> executeWebSearch(), which    *)
(*                       drives playwright directly                        *)
(*                                                                         *)
(* Spec       : one local_web_search tool call handled by src/index.ts     *)
(* SpecSearch : one run of search() of src/index.ts, all four parameters   *)
(*              drawn from bounded sets                                    *)
(* SpecExec   : one tool call handled by src/src/index.ts                  *)
(***************************************************************************)
EXTENDS Integers, Sequences, FiniteSets, TLC

VARIABLES
    \* ---- src/index.ts ----
    caller,         \* who invoked search(): "none", "handler", "direct"
    request,        \* the CallTool request being handled
    response,       \* the handler's answer: [sent, isError, text]
    pc,             \* position of the run
    query, limit, excludeDomains, truncate,     \* parameters of search()
    searchUrl,      \* getSearchUrl(...) of the run
    browser,        \* "none", "open", "closed"
    launchCount,    \* calls of launchBrowser
    closeCount,     \* calls of browser.close()
    pageStatus,     \* outcome of the results-page evaluateOnPage
    pageLinks,      \* what getSearchPageLinks returned
    visitedUrls,    \* the run's Set of urls
    links,          \* the filtered links
    taskState,      \* per link: "queued", "running", "settled"
    taskResult,     \* per link: the settled promise of queue.add
    evalOutcome,    \* per link: what its evaluateOnPage did
    outOfOrder,     \* a task settled before the task of an earlier link
    completion,     \* how the try block ended (before finally)
    callResult,     \* what search() returned or threw to its caller
    \* ---- src/src/index.ts ----
    xpc,            \* position of the run of executeWebSearch
    xrequest,       \* the CallTool request being handled
    xresponse,      \* the handler's answer
    xbrowser,       \* "none", "open", "closed"
    xcloseCount,    \* calls of browser.close()
    xfailure,       \* the failure met before links were obtained, or "none"
    xexit,          \* the path by which executeWebSearch returned
    xlinks,         \* limitedLinks
    xtask,          \* per link: "running", "settled"
    xtaskResult,    \* per link: what the task resolved to
    xpageOpen,      \* per link: the task's page is open
    xresult,        \* what executeWebSearch returned
    \* ---- src/index.ts, two tool calls in progress: per call ----
    runPc,          \* position of the call's run of search()
    runBrowser,     \* the run's `browser`: the session launchBrowser gave it
    runVisitedUrls, \* the run's `visitedUrls`
    runPageLinks,   \* what getSearchPageLinks returned to the run
    runLinks,       \* the run's filtered links
    runTaskState,   \* per link of the run: "queued", "running", "settled"
    runTaskResult,  \* per link of the run: the settled promise
    runCompletion,  \* how the run's try block ended
    runCallResult,  \* what the run returned or threw to the handler
    sessions        \* every browser session launched: "open" or "closed"

avars == <<caller, request, response, pc, query, limit, excludeDomains,
           truncate, searchUrl, browser, launchCount, closeCount, pageStatus,
           pageLinks, visitedUrls, links, taskState, taskResult, evalOutcome,
           outOfOrder, completion, callResult>>

xvars == <<xpc, xrequest, xresponse, xbrowser, xcloseCount, xfailure, xexit, xlinks,
           xtask, xtaskResult, xpageOpen, xresult>>

ovars == <<runPc, runBrowser, runVisitedUrls, runPageLinks, runLinks,
           runTaskState, runTaskResult, runCompletion, runCallResult, sessions>>

vars == <<avars, xvars, ovars>>

----------------------------------------------------------------------------
(* Bounds of the model *)

MaxLinks == 2       \* longest list of links a results page yields
MaxContent == 2     \* longest extracted text, in characters
MaxLimit == 2       \* largest limit a caller asks for
QueueLinks == 16    \* longest results page of the runs that fill the queue

(* Program constants *)

Concurrency == 15       \* new Queue({ concurrency: 15 })
DefaultLimit == 10      \* limit = 10
DescriptionLen == 200   \* content.slice(0, 200)

----------------------------------------------------------------------------
(* Values *)

None == {}
Some(v) == {v}
IsSet(opt) == opt # {}
Get(opt) == CHOOSE v \in opt : TRUE

Min(a, b) == IF a < b THEN a ELSE b

Range(s) == {s[i] : i \in DOMAIN s}

SeqsUpTo(S, n) == UNION {[1..k -> S] : k \in 0..n}

\* s.slice(0, n) for n >= 0
Slice(s, n) == SubSeq(s, 1, Min(n, Len(s)))

Hosts == {"ok.org", "ex.org", "skip.com"}
Paths == {"/a", "/b"}
Urls == [host : Hosts, path : Paths]

\* the i-th result block of a page carries the title "t<i>"
TitleOf(i) == "t" \o ToString(i)

\* the lists getSearchPageLinks can return: items with a non-empty title and
\* a valid url (src/src/extract.ts:26,33), in document order
Pages == {[i \in 1..Len(us) |-> [title |-> TitleOf(i), url |-> us[i]]] :
            us \in SeqsUpTo(Urls, MaxLinks)}

Chars(n) == [i \in 1..n |-> "x"]

\* HTML fragments Readability hands back: empty, or text inside one element
HtmlFragments == {IF n = 0 THEN <<>> ELSE <<"<p>">> \o Chars(n) \o <<"</p>">> :
                    n \in 0..MaxContent}

\* what the in-page extractor returns: { content, title: article?.title || title }
PageTitles == {"", "Doc"}
ExtractorResults == [content : HtmlFragments, title : PageTitles]

\* toMarkdown(html): the element markup is dropped, the text is kept
toMarkdown(html) ==
    IF html = <<>> THEN <<>> ELSE SubSeq(html, 2, Len(html) - 1)

\* shouldSkipDomain(url): the host is on the configured skip-list
SkipDomains == {"skip.com"}
shouldSkipDomain(url) == url.host \in SkipDomains

\* JavaScript truthiness of an optional number
TruthyNum(opt) == IsSet(opt) /\ Get(opt) # 0

----------------------------------------------------------------------------
(* src/index.ts: pure parts *)

\* getSearchUrl(options): the query parameters of the results-page url
getSearchUrl(q, maxResults, exclude) ==
    [q   |-> [i \in 1..Len(exclude) |-> "-site:" \o exclude[i]] \o <<q>>,
     num |-> IF maxResults # 0 THEN maxResults ELSE DefaultLimit,
     udm |-> "14"]

\* variant: the visited set is never consulted
AlreadyVisited_Never(link, visited) == FALSE

\* visitedUrls.has(link.url)
AlreadyVisited(link, visited) == link.url \in visited

\* the callback of links.filter: false for a url seen before, else the url
\* is added and the link is kept unless its domain is skipped
KeepsLink(link, visited) ==
    /\ ~AlreadyVisited(link, visited)
    /\ ~shouldSkipDomain(link.url)

\* links.filter(...) run left to right over the extractor's list with the
\* run's visited set: [links, visited] afterwards
RECURSIVE FilterLinks(_, _)
FilterLinks(ls, visited) ==
    IF ls = <<>> THEN [links |-> <<>>, visited |-> visited]
    ELSE LET l == Head(ls)
             rest == FilterLinks(Tail(ls), visited \cup {l.url})
         IN IF KeepsLink(l, visited)
            THEN [links |-> <<l>> \o rest.links, visited |-> rest.visited]
            ELSE rest

\* title: a || b
OrElse(a, b) == IF a # "" THEN a ELSE b

\* the promise of a task that ran to its return statement
Fulfilled(v) == [status |-> "fulfilled", value |-> v]
Rejected == [status |-> "rejected"]
Unsettled == [status |-> "pending"]

\* the result built when evaluateOnPage gave nothing (!result)
NoResult(link) == Fulfilled([title |-> link.title, url |-> link.url])

\* variant: the catch block rethrows, so the task's promise is rejected
TaskCatch_Rethrow(link) == Rejected

\* the catch block of the task: log, then title and url alone
TaskCatch(link) == Fulfilled([title |-> link.title, url |-> link.url])

\* truncate ? content.slice(0, truncate) : content
Truncated(content, trunc) ==
    IF TruthyNum(trunc) THEN Slice(content, Get(trunc)) ELSE content

\* the result built from what the in-page extractor returned
TaskSuccess(link, result, trunc) ==
    LET content == toMarkdown(result.content)
    IN Fulfilled([title       |-> OrElse(result.title, link.title),
                  url         |-> link.url,
                  content     |-> Truncated(content, trunc),
                  description |-> Slice(content, DescriptionLen)])

\* variant: the values are collected last link first
FulfilledValues_Reversed(rs) ==
    [i \in 1..Len(rs) |-> rs[Len(rs) + 1 - i].value]

\* results.filter(fulfilled).map(value)
RECURSIVE FulfilledValues(_)
FulfilledValues(rs) ==
    IF rs = <<>> THEN <<>>
    ELSE IF Head(rs).status = "fulfilled"
         THEN <<Head(rs).value>> \o FulfilledValues(Tail(rs))
         ELSE FulfilledValues(Tail(rs))

\* how a block ends
Returns(v) == [kind |-> "return", value |-> v, error |-> ""]
Throws(msg) == [kind |-> "throw", value |-> <<>>, error |-> msg]
Pending == [kind |-> "pending", value |-> <<>>, error |-> ""]

\* variant: close() only at the end of a try block that did not throw
AfterTry_NoCloseOnThrow(c) == IF c.kind = "throw" THEN "returned" ELSE "close"

\* try { ... } finally { await browser.close() }: where control goes when
\* the try block ends with completion c
AfterTry(c) == "close"

\* isLocalWebSearchArgs(args)
isLocalWebSearchArgs(args) == args.queryType = "string"

\* the tool-call requests
ToolNames == {"local_web_search", "other"}
\* (a caller gives both of excludeDomains and truncate, or neither)
ArgsSet == {a \in [present : {TRUE}, queryType : {"string"}, query : {"", "q"},
                   limit : {None} \cup {Some(l) : l \in {1, MaxLimit}},
                   excludeDomains : {<<>>, <<"ex.org">>},
                   truncate : {None, Some(1)}] :
                (a.excludeDomains = <<>>) <=> (a.truncate = None)}
          \cup [present : {TRUE}, queryType : {"missing", "number"},
                query : {""}, limit : {None}, excludeDomains : {<<>>},
                truncate : {None}]
          \cup [present : {FALSE}, queryType : {"missing"}, query : {""},
                limit : {None}, excludeDomains : {<<>>}, truncate : {None}]
Requests == [name : ToolNames, args : ArgsSet]
NoRequest == [name |-> "", args |-> [present |-> FALSE, queryType |-> "missing",
              query |-> "", limit |-> None, excludeDomains |-> <<>>,
              truncate |-> None]]

NoText == [message |-> "", items |-> <<>>]
NoResponse == [sent |-> FALSE, isError |-> FALSE, text |-> NoText]
Reply(isErr, text) == [sent |-> TRUE, isError |-> isErr, text |-> text]

\* `Error: ${error.message}`
ErrorText(msg) == [message |-> "Error: " \o msg, items |-> <<>>]

\* result => `Title: ...\nURL: ...` plus the description when it is truthy
FormatResult(r) ==
    IF "description" \in DOMAIN r /\ r.description # <<>>
    THEN [title |-> r.title, url |-> r.url, description |-> r.description]
    ELSE [title |-> r.title, url |-> r.url]

\* results.map(format).join('\n\n') || "No results found"
FormatResults(rs) ==
    [message |-> IF rs = <<>> THEN "No results found" ELSE "",
     items   |-> [i \in 1..Len(rs) |-> FormatResult(rs[i])]]

\* the handler's answer to what search() returned
SuccessReply(rs) == Reply(FALSE, FormatResults(rs))

\* the handler's catch block
CatchReply(msg) == Reply(TRUE, ErrorText(msg))

----------------------------------------------------------------------------
(* src/index.ts: the run *)

AInit ==
    /\ caller = "none"
    /\ request = NoRequest
    /\ response = NoResponse
    /\ pc = "idle"
    /\ query = ""
    /\ limit = 0
    /\ excludeDomains = <<>>
    /\ truncate = None
    /\ searchUrl = getSearchUrl("", 0, <<>>)
    /\ browser = "none"
    /\ launchCount = 0
    /\ closeCount = 0
    /\ pageStatus = "none"
    /\ pageLinks = <<>>
    /\ visitedUrls = {}
    /\ links = <<>>
    /\ taskState = <<>>
    /\ taskResult = <<>>
    /\ evalOutcome = <<>>
    /\ outOfOrder = FALSE
    /\ completion = Pending
    /\ callResult = Pending

\* search(query, limit, excludeDomains, truncate) is entered
EnterSearch(q, l, ex, t) ==
    /\ query' = q
    /\ limit' = l
    /\ excludeDomains' = ex
    /\ truncate' = t
    /\ pc' = "launch"
    /\ UNCHANGED <<searchUrl, browser, launchCount, closeCount, pageStatus,
                   pageLinks, visitedUrls, links, taskState, taskResult, evalOutcome, outOfOrder,
                   completion, callResult>>

\* search() called with a limit of ls, exclusions of exs, a truncate of ts
CallSearchWith(ls, exs, ts) ==
    /\ pc = "idle"
    /\ \E q \in {"q"}, l \in ls, ex \in exs, t \in ts :
            EnterSearch(q, l, ex, t)
    /\ caller' = "direct"
    /\ UNCHANGED <<request, response, xvars, ovars>>

\* search() called by a caller of its own choosing
CallSearch ==
    CallSearchWith({1, MaxLimit}, {<<>>, <<"ex.org">>},
                   {None} \cup {Some(n) : n \in {0, 1, MaxContent}})

\* search(query): every other parameter at its default
CallSearchDefaults == CallSearchWith({DefaultLimit}, {<<>>}, {None})

\* the arguments the handler passes on: search(query, limit)
HandlerLimit(args) == IF IsSet(args.limit) THEN Get(args.limit) ELSE DefaultLimit
HandlerExclude(args) == <<>>
HandlerTruncate(args) == None

\* the CallTool handler up to its await of search(), for a request of reqs
HandleCall(reqs) ==
    /\ pc = "idle"
    /\ \E req \in reqs :
        /\ request' = req
        /\ caller' = "handler"
        /\ IF ~req.args.present
           THEN /\ response' = CatchReply("No arguments provided")
                /\ pc' = "responded"
                /\ UNCHANGED <<query, limit, excludeDomains, truncate,
                               searchUrl, browser, launchCount, closeCount,
                               pageStatus, pageLinks, visitedUrls, links,
                               taskState, taskResult, evalOutcome, outOfOrder, completion, callResult>>
           ELSE IF req.name # "local_web_search"
           THEN /\ response' = Reply(TRUE, [message |-> "Unknown tool: " \o req.name,
                                            items |-> <<>>])
                /\ pc' = "responded"
                /\ UNCHANGED <<query, limit, excludeDomains, truncate,
                               searchUrl, browser, launchCount, closeCount,
                               pageStatus, pageLinks, visitedUrls, links,
                               taskState, taskResult, evalOutcome, outOfOrder, completion, callResult>>
           ELSE IF ~isLocalWebSearchArgs(req.args)
           THEN /\ response' = CatchReply("Invalid arguments for local_web_search")
                /\ pc' = "responded"
                /\ UNCHANGED <<query, limit, excludeDomains, truncate,
                               searchUrl, browser, launchCount, closeCount,
                               pageStatus, pageLinks, visitedUrls, links,
                               taskState, taskResult, evalOutcome, outOfOrder, completion, callResult>>
           ELSE /\ EnterSearch(req.args.query, HandlerLimit(req.args),
                               HandlerExclude(req.args), HandlerTruncate(req.args))
                /\ UNCHANGED response
    /\ UNCHANGED <<xvars, ovars>>

\* the CallTool handler receives any request
HandleCallTool == HandleCall(Requests)

\* the requests that take each branch of the handler once: no arguments, a
\* missing or non-string query, an empty query, and a query with the default
\* limit, for a known and an unknown tool name
LiveRequests ==
    {r \in Requests : r.args.limit = None /\ r.args.excludeDomains = <<>>
                        /\ r.args.truncate = None}

HandleCallToolLive == HandleCall(LiveRequests)

\* const browser = await launchBrowser(...): outside the try block
LaunchBrowser ==
    /\ pc = "launch"
    /\ launchCount' = launchCount + 1
    /\ \E ok \in BOOLEAN :
        IF ok
        THEN /\ browser' = "open"
             /\ searchUrl' = getSearchUrl(query, limit, excludeDomains)
             /\ pc' = "searchPage"
             /\ UNCHANGED callResult
        ELSE /\ callResult' = Throws("launch failed")
             /\ pc' = "returned"
             /\ UNCHANGED <<browser, searchUrl>>
    /\ UNCHANGED <<caller, request, response, query, limit, excludeDomains,
                   truncate, closeCount, pageStatus, pageLinks, visitedUrls,
                   links, taskState, taskResult, evalOutcome, outOfOrder, completion, xvars, ovars>>

\* the try block ends (return or throw); finally is next
EndTry(c) ==
    /\ completion' = c
    /\ pc' = AfterTry(c)

\* variant: an empty filtered list is raised as an error
EmptyLinks_Throws == Throws("no results")

\* what search() does with an empty filtered list
EmptyLinks == Returns(<<>>)

\* await browser.evaluateOnPage(url, getSearchPageLinks, []), then the filter
\* and the empty-list return
SearchPageOf(pages) ==
    /\ pc = "searchPage"
    /\ \/ /\ pageStatus' = "threw"
          /\ EndTry(Throws("results page failed"))
          /\ UNCHANGED <<pageLinks, visitedUrls, links>>
       \/ /\ pageStatus' = "null"
          /\ EndTry(EmptyLinks)
          /\ UNCHANGED <<pageLinks, visitedUrls, links>>
       \/ \E page \in pages :
            LET f == FilterLinks(page, visitedUrls)
            IN /\ pageStatus' = "links"
               /\ pageLinks' = page
               /\ visitedUrls' = f.visited
               /\ links' = f.links
               /\ IF f.links = <<>>
                  THEN EndTry(EmptyLinks)
                  ELSE /\ pc' = "readability"
                       /\ UNCHANGED completion
    /\ UNCHANGED <<caller, request, response, query, limit, excludeDomains,
                   truncate, searchUrl, browser, launchCount, closeCount,
                   taskState, taskResult, evalOutcome, outOfOrder, callResult, xvars, ovars>>

\* the results page is any list of at most MaxLinks links
SearchPage == SearchPageOf(Pages)

\* a results page of n links on n different urls
LongPage(n) ==
    [i \in 1..n |-> [title |-> TitleOf(i),
                     url |-> [host |-> "ok.org", path |-> "/p" \o ToString(i)]]]

\* results pages with as many links as the queue runs at once, and more
LongPages == {LongPage(n) : n \in Concurrency..QueueLinks}

\* the results page is one of the long pages
SearchLongPage == SearchPageOf(LongPages)

\* variant: every added task starts at once
Scheduled_AllStart(n) == [i \in 1..n |-> "running"]

\* the state of the n tasks right after links.map(link => queue.add(...)):
\* the queue starts a task while fewer than its concurrency are running
Scheduled(n) == [i \in 1..n |-> IF i <= Concurrency THEN "running" ELSE "queued"]

\* await getReadabilityScript(), then one queue.add per link
Schedule ==
    /\ pc = "readability"
    /\ \/ /\ taskState' = Scheduled(Len(links))
          /\ taskResult' = [i \in 1..Len(links) |-> Unsettled]
          /\ evalOutcome' = [i \in 1..Len(links) |-> "none"]
          /\ UNCHANGED outOfOrder
          /\ pc' = "fetch"
          /\ UNCHANGED completion
       \/ /\ EndTry(Throws("readability script failed"))
          /\ UNCHANGED <<taskState, taskResult, evalOutcome, outOfOrder>>
    /\ UNCHANGED <<caller, request, response, query, limit, excludeDomains,
                   truncate, searchUrl, browser, launchCount, closeCount,
                   pageStatus, pageLinks, visitedUrls, links, callResult, xvars, ovars>>

\* the queue after task i settled: the first waiting task starts
StartNext(ts, i) ==
    LET settled == [ts EXCEPT ![i] = "settled"]
        waiting == {j \in DOMAIN ts : ts[j] = "queued"}
    IN IF waiting = {} THEN settled
       ELSE LET j == CHOOSE k \in waiting : \A m \in waiting : k <= m
            IN [settled EXCEPT ![j] = "running"]

\* task i settles while the task of an earlier link has not, now or before
SettlesEarly(i) ==
    outOfOrder \/ \E j \in 1..(i - 1) : taskState[j] # "settled"

\* variant: a task whose evaluation threw takes its url out of the visited
\* set again
TaskThrows_ForgetsUrl(i) ==
    /\ pc = "fetch"
    /\ i \in DOMAIN taskState
    /\ taskState[i] = "running"
    /\ taskResult' = [taskResult EXCEPT ![i] = TaskCatch(links[i])]
    /\ evalOutcome' = [evalOutcome EXCEPT ![i] = "threw"]
    /\ outOfOrder' = SettlesEarly(i)
    /\ taskState' = StartNext(taskState, i)
    /\ visitedUrls' = visitedUrls \ {links[i].url}
    /\ UNCHANGED <<caller, request, response, pc, query, limit, excludeDomains,
                   truncate, searchUrl, browser, launchCount, closeCount,
                   pageStatus, pageLinks, links, completion,
                   callResult, xvars, ovars>>

\* the task of link i: evaluateOnPage throws, gives nothing, or gives the
\* extractor's result
TaskThrows(i) ==
    /\ pc = "fetch"
    /\ i \in DOMAIN taskState
    /\ taskState[i] = "running"
    /\ taskResult' = [taskResult EXCEPT ![i] = TaskCatch(links[i])]
    /\ evalOutcome' = [evalOutcome EXCEPT ![i] = "threw"]
    /\ outOfOrder' = SettlesEarly(i)
    /\ taskState' = StartNext(taskState, i)
    /\ UNCHANGED <<caller, request, response, pc, query, limit, excludeDomains,
                   truncate, searchUrl, browser, launchCount, closeCount,
                   pageStatus, pageLinks, visitedUrls, links, completion,
                   callResult, xvars, ovars>>

TaskNoResult(i) ==
    /\ pc = "fetch"
    /\ i \in DOMAIN taskState
    /\ taskState[i] = "running"
    /\ taskResult' = [taskResult EXCEPT ![i] = NoResult(links[i])]
    /\ evalOutcome' = [evalOutcome EXCEPT ![i] = "null"]
    /\ outOfOrder' = SettlesEarly(i)
    /\ taskState' = StartNext(taskState, i)
    /\ UNCHANGED <<caller, request, response, pc, query, limit, excludeDomains,
                   truncate, searchUrl, browser, launchCount, closeCount,
                   pageStatus, pageLinks, visitedUrls, links, completion,
                   callResult, xvars, ovars>>

TaskSucceeds(i) ==
    /\ pc = "fetch"
    /\ i \in DOMAIN taskState
    /\ taskState[i] = "running"
    /\ \E r \in ExtractorResults :
        taskResult' = [taskResult EXCEPT ![i] = TaskSuccess(links[i], r, truncate)]
    /\ evalOutcome' = [evalOutcome EXCEPT ![i] = "ok"]
    /\ outOfOrder' = SettlesEarly(i)
    /\ taskState' = StartNext(taskState, i)
    /\ UNCHANGED <<caller, request, response, pc, query, limit, excludeDomains,
                   truncate, searchUrl, browser, launchCount, closeCount,
                   pageStatus, pageLinks, visitedUrls, links, completion,
                   callResult, xvars, ovars>>

\* variant: the run goes on as soon as one task has settled
AllSettled_AnySettled == \E i \in DOMAIN taskState : taskState[i] = "settled"

\* Promise.allSettled(...) resolves: every task has settled
AllSettled == \A i \in DOMAIN taskState : taskState[i] = "settled"

\* Promise.allSettled resolved: the fulfilled values are returned
Collect ==
    /\ pc = "fetch"
    /\ AllSettled
    /\ EndTry(Returns(FulfilledValues(taskResult)))
    /\ UNCHANGED <<caller, request, response, query, limit, excludeDomains,
                   truncate, searchUrl, browser, launchCount, closeCount,
                   pageStatus, pageLinks, visitedUrls, links, taskState,
                   taskResult, evalOutcome, outOfOrder, callResult, xvars, ovars>>

\* BrowserSession.close(): releases the browser process and its pages; the
\* session's contract lists failures for launch and evaluateOnPage, none for
\* close
CloseFails == FALSE

\* finally { await browser.close() }, then the try block's completion (or
\* the error of close) reaches the caller
CloseBrowser ==
    /\ pc = "close"
    /\ browser' = "closed"
    /\ closeCount' = closeCount + 1
    /\ callResult' = IF CloseFails THEN Throws("close failed") ELSE completion
    /\ pc' = "returned"
    /\ UNCHANGED <<caller, request, response, query, limit, excludeDomains,
                   truncate, searchUrl, launchCount, pageStatus, pageLinks,
                   visitedUrls, links, taskState, taskResult, evalOutcome, outOfOrder, completion, xvars, ovars>>

\* variant: no try/catch around the call, a thrown error leaves the handler
HandlerReply_NoCatch(result) ==
    IF result.kind = "return" THEN SuccessReply(result.value) ELSE NoResponse

\* try { ... return success } catch (error) { return error payload }
HandlerReply(result) ==
    IF result.kind = "return"
    THEN SuccessReply(result.value)
    ELSE CatchReply(result.error)

\* the handler after its await of search(): the reply, or the catch block
HandlerRespond ==
    /\ pc = "returned"
    /\ caller = "handler"
    /\ response' = HandlerReply(callResult)
    /\ pc' = "responded"
    /\ UNCHANGED <<caller, request, query, limit, excludeDomains, truncate,
                   searchUrl, browser, launchCount, closeCount, pageStatus,
                   pageLinks, visitedUrls, links, taskState, taskResult, evalOutcome, outOfOrder,
                   completion, callResult, xvars, ovars>>

----------------------------------------------------------------------------
(* src/src/index.ts: pure parts *)

\* the result blocks ('.g') of a rendered results document: whether the
\* block has an h3, the h3's text, and the href of its first anchor ("" when
\* there is no anchor or no href)
\* "http.html" is a relative href: it starts with 'http' and new URL() rejects it
Hrefs == {"", "/rel", "http.html", "http://ok.org/a", "http://ok.org/b"}
BlockTitles == {"", " ", "T"}
ResultBlocks == [hasTitle : BOOLEAN, title : BlockTitles, href : Hrefs]
Documents == SeqsUpTo(ResultBlocks, MaxLinks)

\* url.startsWith('http')
StartsWithHttp(href) == href \in {"http.html", "http://ok.org/a", "http://ok.org/b"}

\* isValidUrl of getSearchPageLinks: new URL(url) does not throw
isValidUrl(url) == url \in {"http://ok.org/a", "http://ok.org/b"}

\* textContent.trim()
Trim(t) == IF t = " " THEN "" ELSE t

\* titleEl && url && url.startsWith('http')
BlockPasses(b) == b.hasTitle /\ b.href # "" /\ StartsWithHttp(b.href)

\* the page.evaluate link extractor over the '.g' blocks, in document order
RECURSIVE ExtractLinks(_)
ExtractLinks(blocks) ==
    IF blocks = <<>> THEN <<>>
    ELSE LET b == Head(blocks)
         IN IF BlockPasses(b)
            THEN <<[title |-> b.title, url |-> b.href]>> \o ExtractLinks(Tail(blocks))
            ELSE ExtractLinks(Tail(blocks))

\* links.slice(0, params.limit || 10)
LimitedLinks(ls, lim) ==
    Slice(ls, IF TruthyNum(lim) THEN Get(lim) ELSE DefaultLimit)

XArgsSet == [present : {TRUE}, queryType : {"string"}, query : {"q"},
             limit : {None} \cup {Some(l) : l \in 1..MaxLimit},
             excludeDomains : {<<>>},
             truncate : {None, Some(1)}]
           \cup [present : {TRUE}, queryType : {"missing"},
                 query : {""}, limit : {None}, excludeDomains : {<<>>},
                 truncate : {None}]
           \cup [present : {FALSE}, queryType : {"missing"}, query : {""},
                 limit : {None}, excludeDomains : {<<>>}, truncate : {None}]
XRequests == [name : ToolNames, args : XArgsSet]

\* document.body.innerText of a visited page
InnerTexts == {Chars(n) : n \in 0..MaxContent}

\* { ...item, content: params.truncate ? content.slice(0, params.truncate) : content }
XTaskSuccess(item, content, trunc) ==
    [title |-> item.title, url |-> item.url, content |-> Truncated(content, trunc)]

\* what a task resolves to: a result, or null from its catch block
XValue(r) == [isNull |-> FALSE, value |-> r]
XNull == [isNull |-> TRUE]
XUnsettled == [isNull |-> TRUE, pending |-> TRUE]

\* the catch block of a task: log, return null
XTaskCatch(item) == XNull

\* results.filter(result => result !== null)
RECURSIVE ValidResults(_)
ValidResults(rs) ==
    IF rs = <<>> THEN <<>>
    ELSE IF Head(rs).isNull THEN ValidResults(Tail(rs))
         ELSE <<Head(rs).value>> \o ValidResults(Tail(rs))

\* JSON.stringify({ results })
JsonResults(rs) == [message |-> "", items |-> rs]

\* the handler's answer to what executeWebSearch returned
XSuccessReply(rs) == Reply(FALSE, JsonResults(rs))

----------------------------------------------------------------------------
(* src/src/index.ts: the run *)

XIdle ==
    /\ xpc = "idle"
    /\ xrequest = NoRequest
    /\ xresponse = NoResponse
    /\ xbrowser = "none"
    /\ xcloseCount = 0
    /\ xfailure = "none"
    /\ xexit = "none"
    /\ xlinks = <<>>
    /\ xtask = <<>>
    /\ xtaskResult = <<>>
    /\ xpageOpen = <<>>
    /\ xresult = Pending

\* the CallTool handler up to its await of executeWebSearch(args)
XHandleCallTool ==
    /\ xpc = "idle"
    /\ \E req \in XRequests :
        /\ xrequest' = req
        /\ IF ~req.args.present
           THEN /\ xresponse' = CatchReply("No arguments provided")
                /\ xpc' = "responded"
           ELSE IF req.name # "local_web_search"
           THEN /\ xresponse' = Reply(TRUE, [message |-> "Unknown tool: " \o req.name,
                                             items |-> <<>>])
                /\ xpc' = "responded"
           ELSE IF ~isLocalWebSearchArgs(req.args)
           THEN /\ xresponse' = CatchReply("Invalid arguments for local_web_search")
                /\ xpc' = "responded"
           ELSE /\ xpc' = "launch"
                /\ UNCHANGED xresponse
    /\ UNCHANGED <<xbrowser, xcloseCount, xfailure, xexit, xlinks, xtask,
                   xtaskResult, xpageOpen, xresult, avars, ovars>>

\* return [] on a path that does not close the browser
XReturnEmpty(path) ==
    /\ xresult' = Returns(<<>>)
    /\ xexit' = path
    /\ xpc' = "returned"
    /\ UNCHANGED <<xbrowser, xcloseCount>>

\* the outer catch block: close the browser if there is one, return []
XCatch(failure) ==
    /\ xfailure' = failure
    /\ xexit' = "catch"
    /\ xresult' = Returns(<<>>)
    /\ xpc' = "returned"
    /\ IF xbrowser = "open"
       THEN xbrowser' = "closed" /\ xcloseCount' = xcloseCount + 1
       ELSE UNCHANGED <<xbrowser, xcloseCount>>

\* browser = await browserType.launch(...)
XLaunch ==
    /\ xpc = "launch"
    /\ \/ /\ xbrowser' = "open"
          /\ xpc' = "navigate"
          /\ UNCHANGED <<xcloseCount, xfailure, xexit, xresult>>
       \/ XCatch("launch")
    /\ UNCHANGED <<xrequest, xresponse, xlinks, xtask, xtaskResult, xpageOpen,
                   avars, ovars>>

\* newContext, newPage, page.goto(url) and the load-state waits: a thrown
\* error or timeout, no response (throw new Error), or a loaded page
XNavigate ==
    /\ xpc = "navigate"
    /\ \/ /\ xpc' = "waitResults"
          /\ UNCHANGED <<xbrowser, xcloseCount, xfailure, xexit, xresult>>
       \/ XCatch("navigation")
       \/ XCatch("no response")
    /\ UNCHANGED <<xrequest, xresponse, xlinks, xtask, xtaskResult, xpageOpen,
                   avars, ovars>>

\* page.waitForSelector('.g') and, when no block appears, the debugging
\* steps and the early return
XWaitResults ==
    /\ xpc = "waitResults"
    /\ \/ /\ xpc' = "extract"
          /\ UNCHANGED <<xbrowser, xcloseCount, xfailure, xexit, xresult>>
       \/ /\ XReturnEmpty("no result block")
          /\ UNCHANGED xfailure
    /\ UNCHANGED <<xrequest, xresponse, xlinks, xtask, xtaskResult, xpageOpen,
                   avars, ovars>>

\* page.evaluate(link extractor), the zero-links return, the slice by limit
\* and the start of one task per link
XExtract ==
    /\ xpc = "extract"
    /\ \/ /\ XCatch("extraction")
          /\ UNCHANGED <<xlinks, xtask, xtaskResult, xpageOpen>>
       \/ \E doc \in Documents :
            LET found == ExtractLinks(doc)
                limited == LimitedLinks(found, xrequest.args.limit)
            IN IF found = <<>>
               THEN /\ XReturnEmpty("zero links")
                    /\ UNCHANGED <<xfailure, xlinks, xtask, xtaskResult, xpageOpen>>
               ELSE /\ xlinks' = limited
                    /\ xtask' = [i \in 1..Len(limited) |-> "running"]
                    /\ xtaskResult' = [i \in 1..Len(limited) |-> XUnsettled]
                    /\ xpageOpen' = [i \in 1..Len(limited) |-> FALSE]
                    /\ xpc' = "fetch"
                    /\ UNCHANGED <<xbrowser, xcloseCount, xfailure, xexit, xresult>>
    /\ UNCHANGED <<xrequest, xresponse, avars, ovars>>

\* const page = await context.newPage() of task i: a page, or an error
\* caught by the task
XOpenPage(i) ==
    /\ xpc = "fetch"
    /\ i \in DOMAIN xtask
    /\ xtask[i] = "running"
    /\ \/ /\ xtask' = [xtask EXCEPT ![i] = "visiting"]
          /\ xpageOpen' = [xpageOpen EXCEPT ![i] = TRUE]
          /\ UNCHANGED xtaskResult
       \/ /\ xtask' = [xtask EXCEPT ![i] = "settled"]
          /\ xtaskResult' = [xtaskResult EXCEPT ![i] = XTaskCatch(xlinks[i])]
          /\ UNCHANGED xpageOpen
    /\ UNCHANGED <<xpc, xrequest, xresponse, xbrowser, xcloseCount, xfailure,
                   xexit, xlinks, xresult, avars, ovars>>

\* page.goto, page.evaluate and page.close of task i run to the end
XVisitSucceeds(i) ==
    /\ xpc = "fetch"
    /\ i \in DOMAIN xtask
    /\ xtask[i] = "visiting"
    /\ \E text \in InnerTexts :
        xtaskResult' = [xtaskResult EXCEPT ![i] =
            XValue(XTaskSuccess(xlinks[i], text, xrequest.args.truncate))]
    /\ xpageOpen' = [xpageOpen EXCEPT ![i] = FALSE]
    /\ xtask' = [xtask EXCEPT ![i] = "settled"]
    /\ UNCHANGED <<xpc, xrequest, xresponse, xbrowser, xcloseCount, xfailure,
                   xexit, xlinks, xresult, avars, ovars>>

\* page.goto gives no response or throws, or page.evaluate throws: the
\* task's catch block returns null
XVisitFails(i) ==
    /\ xpc = "fetch"
    /\ i \in DOMAIN xtask
    /\ xtask[i] = "visiting"
    /\ xtaskResult' = [xtaskResult EXCEPT ![i] = XTaskCatch(xlinks[i])]
    /\ xtask' = [xtask EXCEPT ![i] = "settled"]
    /\ UNCHANGED <<xpc, xrequest, xresponse, xbrowser, xcloseCount, xfailure,
                   xexit, xlinks, xpageOpen, xresult, avars, ovars>>

XAllSettled == \A i \in DOMAIN xtask : xtask[i] = "settled"

\* Promise.all resolved: validResults, browser.close(), return
XCollectAndClose ==
    /\ xpc = "fetch"
    /\ XAllSettled
    /\ xbrowser' = "closed"
    /\ xcloseCount' = xcloseCount + 1
    /\ xresult' = Returns(ValidResults(xtaskResult))
    /\ xexit' = "end"
    /\ xpc' = "returned"
    /\ UNCHANGED <<xrequest, xresponse, xfailure, xlinks, xtask, xtaskResult,
                   xpageOpen, avars, ovars>>

\* the handler after its await of executeWebSearch
XHandlerRespond ==
    /\ xpc = "returned"
    /\ xresponse' = IF xresult.kind = "return"
                    THEN XSuccessReply(xresult.value)
                    ELSE CatchReply(xresult.error)
    /\ xpc' = "responded"
    /\ UNCHANGED <<xrequest, xbrowser, xcloseCount, xfailure, xexit, xlinks,
                   xtask, xtaskResult, xpageOpen, xresult, avars, ovars>>

----------------------------------------------------------------------------
(* src/index.ts: two tool calls whose runs of search() overlap *)

\* the server handles a second request while the first awaits: two calls
Runs == {1, 2}

\* launchBrowser(): a new browser session, owned by the run that asked for
\* it; its handle is its place in the list of sessions launched so far
launchBrowser(ss) == [handle |-> Len(ss) + 1, sessions |-> Append(ss, "open")]

\* BrowserSession.close() on the session of handle h
closeSession(ss, h) == [ss EXCEPT ![h] = "closed"]

\* the session behind run r's `browser` can still evaluate pages
SessionOpen(r) == IsSet(runBrowser[r]) /\ sessions[Get(runBrowser[r])] = "open"

\* variant: one set of visited urls kept at module level for every call
VisitedBy_Shared(r) == UNION {runVisitedUrls[s] : s \in Runs}

\* const visitedUrls = new Set(): the set run r's filter consults
VisitedBy(r) == runVisitedUrls[r]

\* results pages over two urls and extractor results of one kind: what two
\* runs of the same query see
OverlapUrls == {u \in Urls : u.host = "ok.org"}
OverlapPages == {p \in Pages : \A i \in DOMAIN p : p[i].url \in OverlapUrls}
OverlapResult == [content |-> <<"<p>", "x", "</p>">>, title |-> "Doc"]

OverlapInit ==
    /\ runPc = [r \in Runs |-> "idle"]
    /\ runBrowser = [r \in Runs |-> None]
    /\ runVisitedUrls = [r \in Runs |-> {}]
    /\ runPageLinks = [r \in Runs |-> <<>>]
    /\ runLinks = [r \in Runs |-> <<>>]
    /\ runTaskState = [r \in Runs |-> <<>>]
    /\ runTaskResult = [r \in Runs |-> <<>>]
    /\ runCompletion = [r \in Runs |-> Pending]
    /\ runCallResult = [r \in Runs |-> Pending]
    /\ sessions = <<>>

\* the handler receives call r and awaits search(query, limit)
RunCall(r) ==
    /\ runPc[r] = "idle"
    /\ runPc' = [runPc EXCEPT ![r] = "launch"]
    /\ UNCHANGED <<runBrowser, runVisitedUrls, runPageLinks, runLinks,
                   runTaskState, runTaskResult, runCompletion, runCallResult,
                   sessions, avars, xvars>>

\* run r: const browser = await launchBrowser(...); new Queue; new Set
RunLaunch(r) ==
    /\ runPc[r] = "launch"
    /\ \/ LET b == launchBrowser(sessions)
          IN /\ sessions' = b.sessions
             /\ runBrowser' = [runBrowser EXCEPT ![r] = Some(b.handle)]
             /\ runPc' = [runPc EXCEPT ![r] = "searchPage"]
             /\ UNCHANGED runCallResult
       \/ /\ runCallResult' = [runCallResult EXCEPT ![r] = Throws("launch failed")]
          /\ runPc' = [runPc EXCEPT ![r] = "returned"]
          /\ UNCHANGED <<sessions, runBrowser>>
    /\ UNCHANGED <<runVisitedUrls, runPageLinks, runLinks, runTaskState,
                   runTaskResult, runCompletion, avars, xvars>>

\* run r's try block ends with completion c; finally is next
RunEndTry(r, c) ==
    /\ runCompletion' = [runCompletion EXCEPT ![r] = c]
    /\ runPc' = [runPc EXCEPT ![r] = AfterTry(c)]

\* run r: await browser.evaluateOnPage(url, getSearchPageLinks, []), then
\* the filter; a closed session cannot evaluate
RunSearchPage(r) ==
    /\ runPc[r] = "searchPage"
    /\ \/ /\ RunEndTry(r, Throws("results page failed"))
          /\ UNCHANGED <<runPageLinks, runVisitedUrls, runLinks>>
       \/ /\ SessionOpen(r)
          /\ \E page \in OverlapPages :
                LET f == FilterLinks(page, VisitedBy(r))
                IN /\ runPageLinks' = [runPageLinks EXCEPT ![r] = page]
                   /\ runVisitedUrls' = [runVisitedUrls EXCEPT ![r] = f.visited]
                   /\ runLinks' = [runLinks EXCEPT ![r] = f.links]
                   /\ IF f.links = <<>>
                      THEN RunEndTry(r, EmptyLinks)
                      ELSE /\ runPc' = [runPc EXCEPT ![r] = "readability"]
                           /\ UNCHANGED runCompletion
    /\ UNCHANGED <<runBrowser, runTaskState, runTaskResult, runCallResult,
                   sessions, avars, xvars>>

\* run r: await getReadabilityScript(), then one queue.add per link
RunSchedule(r) ==
    /\ runPc[r] = "readability"
    /\ \/ /\ runTaskState' = [runTaskState EXCEPT ![r] = Scheduled(Len(runLinks[r]))]
          /\ runTaskResult' = [runTaskResult EXCEPT
                                ![r] = [i \in 1..Len(runLinks[r]) |-> Unsettled]]
          /\ runPc' = [runPc EXCEPT ![r] = "fetch"]
          /\ UNCHANGED runCompletion
       \/ /\ RunEndTry(r, Throws("readability script failed"))
          /\ UNCHANGED <<runTaskState, runTaskResult>>
    /\ UNCHANGED <<runBrowser, runVisitedUrls, runPageLinks, runLinks,
                   runCallResult, sessions, avars, xvars>>

\* run r, task of link i: browser.evaluateOnPage throws (as it must on a
\* closed session) and the catch block answers
RunTaskThrows(r, i) ==
    /\ runPc[r] = "fetch"
    /\ i \in DOMAIN runTaskState[r]
    /\ runTaskState[r][i] = "running"
    /\ runTaskResult' = [runTaskResult EXCEPT ![r][i] = TaskCatch(runLinks[r][i])]
    /\ runTaskState' = [runTaskState EXCEPT ![r] = StartNext(runTaskState[r], i)]
    /\ UNCHANGED <<runPc, runBrowser, runVisitedUrls, runPageLinks, runLinks,
                   runCompletion, runCallResult, sessions, avars, xvars>>

\* run r, task of link i: browser.evaluateOnPage gives the extractor's result
RunTaskSucceeds(r, i) ==
    /\ runPc[r] = "fetch"
    /\ i \in DOMAIN runTaskState[r]
    /\ runTaskState[r][i] = "running"
    /\ SessionOpen(r)
    /\ runTaskResult' = [runTaskResult EXCEPT
                            ![r][i] = TaskSuccess(runLinks[r][i], OverlapResult, None)]
    /\ runTaskState' = [runTaskState EXCEPT ![r] = StartNext(runTaskState[r], i)]
    /\ UNCHANGED <<runPc, runBrowser, runVisitedUrls, runPageLinks, runLinks,
                   runCompletion, runCallResult, sessions, avars, xvars>>

\* run r: Promise.allSettled resolved, the fulfilled values are returned
RunCollect(r) ==
    /\ runPc[r] = "fetch"
    /\ \A i \in DOMAIN runTaskState[r] : runTaskState[r][i] = "settled"
    /\ RunEndTry(r, Returns(FulfilledValues(runTaskResult[r])))
    /\ UNCHANGED <<runBrowser, runVisitedUrls, runPageLinks, runLinks,
                   runTaskState, runTaskResult, runCallResult, sessions,
                   avars, xvars>>

\* run r: finally { await browser.close() }, on the run's own `browser`
RunClose(r) ==
    /\ runPc[r] = "close"
    /\ sessions' = closeSession(sessions, Get(runBrowser[r]))
    /\ runCallResult' = [runCallResult EXCEPT
                            ![r] = IF CloseFails THEN Throws("close failed")
                                   ELSE runCompletion[r]]
    /\ runPc' = [runPc EXCEPT ![r] = "returned"]
    /\ UNCHANGED <<runBrowser, runVisitedUrls, runPageLinks, runLinks,
                   runTaskState, runTaskResult, runCompletion, avars, xvars>>

----------------------------------------------------------------------------
(* Specifications *)

Init == AInit /\ XIdle /\ OverlapInit

Next ==
    \/ HandleCallTool
    \/ LaunchBrowser
    \/ SearchPage
    \/ Schedule
    \/ \E i \in 1..MaxLinks : TaskThrows(i)
    \/ \E i \in 1..MaxLinks : TaskNoResult(i)
    \/ \E i \in 1..MaxLinks : TaskSucceeds(i)
    \/ Collect
    \/ CloseBrowser
    \/ HandlerRespond

Spec == Init /\ [][Next]_vars

NextSearch ==
    \/ CallSearch
    \/ LaunchBrowser
    \/ SearchPage
    \/ Schedule
    \/ \E i \in 1..MaxLinks : TaskThrows(i)
    \/ \E i \in 1..MaxLinks : TaskNoResult(i)
    \/ \E i \in 1..MaxLinks : TaskSucceeds(i)
    \/ Collect
    \/ CloseBrowser

SpecSearch == Init /\ [][NextSearch]_vars

\* one tool call handled by src/index.ts, with the event loop running every
\* continuation that is ready and every browser operation (launch,
\* evaluateOnPage, close) ending, by completing or by failing
NextLive ==
    \/ HandleCallToolLive
    \/ LaunchBrowser
    \/ SearchPage
    \/ Schedule
    \/ \E i \in 1..MaxLinks : TaskThrows(i)
    \/ \E i \in 1..MaxLinks : TaskNoResult(i)
    \/ \E i \in 1..MaxLinks : TaskSucceeds(i)
    \/ Collect
    \/ CloseBrowser
    \/ HandlerRespond

SpecLive == Init /\ [][NextLive]_vars /\ WF_vars(NextLive)

\* one run of search(query) on a results page long enough to fill the
\* queue; every link's evaluateOnPage fails (the queue starts the next task
\* in the same way however a task settles)
NextQueue ==
    \/ CallSearchDefaults
    \/ LaunchBrowser
    \/ SearchLongPage
    \/ Schedule
    \/ \E i \in 1..QueueLinks : TaskThrows(i)
    \/ Collect
    \/ CloseBrowser

SpecQueue == Init /\ [][NextQueue]_vars

NextExec ==
    \/ XHandleCallTool
    \/ XLaunch
    \/ XNavigate
    \/ XWaitResults
    \/ XExtract
    \/ \E i \in 1..MaxLinks : XOpenPage(i)
    \/ \E i \in 1..MaxLinks : XVisitSucceeds(i)
    \/ \E i \in 1..MaxLinks : XVisitFails(i)
    \/ XCollectAndClose
    \/ XHandlerRespond

SpecExec == Init /\ [][NextExec]_vars

\* two tool calls handled by src/index.ts at once: every await of one run
\* lets the other run go on
NextOverlap ==
    \/ \E r \in Runs : RunCall(r)
    \/ \E r \in Runs : RunLaunch(r)
    \/ \E r \in Runs : RunSearchPage(r)
    \/ \E r \in Runs : RunSchedule(r)
    \/ \E r \in Runs, i \in 1..MaxLinks : RunTaskThrows(r, i)
    \/ \E r \in Runs, i \in 1..MaxLinks : RunTaskSucceeds(r, i)
    \/ \E r \in Runs : RunCollect(r)
    \/ \E r \in Runs : RunClose(r)

SpecOverlap == Init /\ [][NextOverlap]_vars

----------------------------------------------------------------------------
(* Properties *)

Finished == pc \in {"returned", "responded"}
Returned == Finished /\ callResult.kind = "return"
XFinished == xpc \in {"returned", "responded"}

\* the index of the first block of the page that lists url u
FirstIndex(page, u) ==
    CHOOSE i \in DOMAIN page :
        page[i].url = u /\ \A j \in DOMAIN page : page[j].url = u => i <= j

\* C1: a run of search() with limit L > 0 returns at most L results and
\* schedules at most L fetch tasks, whatever the results page yields.
C1_AtMostLimit ==
    limit > 0 =>
        /\ Len(taskState) <= limit
        /\ Returned => Len(callResult.value) <= limit

\* C2: once a run of search() whose launch succeeded has returned or thrown,
\* close() has been invoked on its browser session exactly once; it is never
\* invoked twice, and never before the try block ended.
C2_ClosedExactlyOnce ==
    /\ closeCount <= 1
    /\ (Finished /\ browser # "none") => (closeCount = 1 /\ browser = "closed")
    /\ (~Finished) => closeCount = 0

\* C2 witness: a run has ended with the session closed once after one fetch
\* task's evaluation threw while another one succeeded.
C2_Witness ==
    /\ pc = "returned"
    /\ closeCount = 1
    /\ \E i, j \in DOMAIN evalOutcome :
        evalOutcome[i] = "threw" /\ evalOutcome[j] = "ok"

\* C3: when executeWebSearch() has returned after launching the browser, the
\* browser is closed, and browser.close() was invoked at most once.
C3_BrowserReleased ==
    /\ xcloseCount <= 1
    /\ (XFinished /\ xbrowser # "none") => xbrowser = "closed"

\* C4: a run of search() that scheduled N links returns (does not throw)
\* exactly N entries in link order: a link whose evaluateOnPage gave a result
\* has content present, and a link whose evaluateOnPage failed is reported
\* with its candidate title and url alone (no content, no description).
C4_FailuresIsolated ==
    (Finished /\ taskState # <<>>) =>
        /\ callResult.kind = "return"
        /\ Len(callResult.value) = Len(links)
        /\ \A i \in DOMAIN links :
            /\ i \in DOMAIN callResult.value
            /\ callResult.value[i].url = links[i].url
            /\ evalOutcome[i] = "ok" =>
                    "content" \in DOMAIN callResult.value[i]
            /\ evalOutcome[i] \in {"threw", "null"} =>
                    callResult.value[i] =
                        [title |-> links[i].title, url |-> links[i].url]

\* C4 witness: a run of two links has returned, one evaluation having
\* thrown and the other having succeeded.
C4_Witness ==
    /\ pc = "returned"
    /\ Len(links) = 2
    /\ \E i, j \in DOMAIN evalOutcome :
        evalOutcome[i] = "threw" /\ evalOutcome[j] = "ok"
    /\ Len(callResult.value) = 2

\* C5: no two entries of the list search() returns have the same url, and
\* the link kept for a url the page lists more than once is its first
\* occurrence on the page.
C5_NoDuplicateUrls ==
    /\ \A k \in DOMAIN links :
        links[k].title = TitleOf(FirstIndex(pageLinks, links[k].url))
    /\ Returned =>
        /\ \A i, j \in DOMAIN callResult.value :
            i # j => callResult.value[i].url # callResult.value[j].url
        /\ \A i \in DOMAIN callResult.value :
            \E k \in DOMAIN links : callResult.value[i].url = links[k].url

\* C5 witness: the page listed one url twice and the run returned a single
\* entry for it.
C5_Witness ==
    /\ pc = "returned"
    /\ Len(pageLinks) = 2
    /\ pageLinks[1].url = pageLinks[2].url
    /\ callResult.kind = "return"
    /\ Len(callResult.value) = 1
    /\ callResult.value[1].url = pageLinks[1].url

\* C6: in a run of search() with truncate set to T >= 0 (T = 0 included),
\* every returned result that has content has content.length <= T.
C6_ContentWithinTruncate ==
    (Returned /\ IsSet(truncate)) =>
        \A i \in DOMAIN callResult.value :
            "content" \in DOMAIN callResult.value[i] =>
                Len(callResult.value[i].content) <= Get(truncate)

\* C7: in a run of search() with excluded domains, no returned result has a
\* url whose host is an excluded domain.
C7_ExcludedDomainsAbsent ==
    Returned =>
        \A i \in DOMAIN callResult.value :
            callResult.value[i].url.host \notin Range(excludeDomains)

\* C8: a tool call handled by src/src/index.ts that failed before candidate
\* links were obtained (launch, results-page navigation, link extraction) is
\* answered with isError true.
C8_EarlyFailureIsError ==
    (xresponse.sent /\ xfailure # "none") => xresponse.isError

\* C9: a local_web_search call whose query is the empty string never
\* launches a browser and is answered with isError true.
C9_EmptyQueryRejected ==
    (/\ caller = "handler"
     /\ request.name = "local_web_search"
     /\ request.args.queryType = "string"
     /\ request.args.query = "") =>
        /\ launchCount = 0
        /\ response.sent => response.isError

\* C10: when the results page loaded and the filter left no link, search()
\* returns an empty list without throwing, no fetch task is scheduled, and
\* the handler answers with isError false.
C10_EmptyIsSuccess ==
    (pageStatus = "links" /\ links = <<>>) =>
        /\ taskState = <<>>
        /\ completion = Returns(<<>>)
        /\ Finished => callResult = Returns(<<>>)
        /\ response.sent => ~response.isError

\* C10 witness: the handler has answered a call whose results page listed
\* links that the filter dropped.
C10_Witness ==
    /\ pc = "responded"
    /\ pageStatus = "links"
    /\ pageLinks # <<>>
    /\ links = <<>>
    /\ response.sent
    /\ response.text.message = "No results found"

\* C11: every tool call the handler of src/index.ts has received is
\* eventually answered; the answer, once sent, never changes (one response
\* per call); and an error-flagged answer carries a message.
C11_AlwaysAnswers ==
    /\ (caller = "handler") ~> response.sent
    /\ [][response.sent => response' = response]_vars
    /\ [](response.sent /\ response.isError => response.text.message # "")

\* C11 witness: a call whose run of search() threw after the launch has been
\* answered with an error payload.
C11_Witness ==
    /\ pc = "responded"
    /\ browser = "closed"
    /\ callResult.kind = "throw"
    /\ response.sent
    /\ response.isError

\* C12: the run of search() a local_web_search call starts uses the caller's
\* excludeDomains and truncate arguments.
C12_ArgumentsPassedOn ==
    (/\ caller = "handler"
     /\ request.name = "local_web_search"
     /\ request.args.present
     /\ isLocalWebSearchArgs(request.args)
     /\ pc # "idle") =>
        /\ excludeDomains = request.args.excludeDomains
        /\ truncate = request.args.truncate

InFlight == Cardinality({i \in DOMAIN taskState : taskState[i] = "running"})

\* C13: at most 15 fetch tasks are in flight at any time, whatever the number
\* of links, and a waiting task starts only in a step in which a task that
\* was in flight settles.
C13_BoundedConcurrency ==
    /\ [](InFlight <= Concurrency)
    /\ [][\A i \in DOMAIN taskState :
            (taskState[i] = "queued" /\ taskState'[i] = "running") =>
                \E j \in DOMAIN taskState :
                    taskState[j] = "running" /\ taskState'[j] = "settled"]_vars

\* C13 witness: a run of more than 15 links in which a task has settled, the
\* last link's task has started, and 15 tasks are in flight.
C13_Witness ==
    /\ pc = "fetch"
    /\ Len(links) > Concurrency
    /\ taskState[Len(links)] = "running"
    /\ \E j \in DOMAIN taskState : taskState[j] = "settled"
    /\ InFlight = Concurrency

\* C14: close() is invoked, and the run returns, only after every scheduled
\* fetch task has settled: the session is never closed, nor the try block
\* left, while a task is waiting in the queue or in flight.
C14_CloseAfterAllSettled ==
    (pc \in {"close", "returned", "responded"} \/ browser = "closed"
        \/ closeCount > 0) =>
            \A i \in DOMAIN taskState : taskState[i] = "settled"

\* C14 witness: a run of more than 15 links, every one of which failed, has
\* returned with the session closed.
C14_Witness ==
    /\ pc = "returned"
    /\ browser = "closed"
    /\ Len(links) > Concurrency
    /\ Len(evalOutcome) = Len(links)
    /\ \A i \in DOMAIN links : evalOutcome[i] = "threw"
    /\ Len(callResult.value) = Len(links)

\* C15: the list search() returns is in the order of the filtered links: its
\* i-th entry has the url (and, when the page gave no title, the title) of
\* the i-th link, whichever task settled first.
C15_ResultsInLinkOrder ==
    (Returned /\ taskState # <<>>) =>
        /\ Len(callResult.value) = Len(links)
        /\ \A i \in DOMAIN callResult.value :
            /\ callResult.value[i].url = links[i].url
            /\ callResult.value[i].title \in {links[i].title} \cup PageTitles

\* C15 witness: a run of two links on different urls has returned although
\* the second link's task settled before the first link's.
C15_Witness ==
    /\ pc = "returned"
    /\ outOfOrder
    /\ Len(links) = 2
    /\ callResult.kind = "return"
    /\ callResult.value[1].url = links[1].url
    /\ callResult.value[2].url = links[2].url

\* C16: when the first fetch task is scheduled the results page has been
\* extracted and every one of its urls has been through the filter (it is in
\* the visited set, and the links are those the filter kept); from then on
\* the visited set and the filtered links never change.
C16_FilterBeforeFanOut ==
    /\ [](taskState # <<>> =>
            /\ pageStatus = "links"
            /\ visitedUrls = {pageLinks[i].url : i \in DOMAIN pageLinks}
            /\ {links[k].url : k \in DOMAIN links} =
                    {u \in visitedUrls : ~shouldSkipDomain(u)})
    /\ [][taskState # <<>> =>
            (visitedUrls' = visitedUrls /\ links' = links)]_vars

\* C16 witness: a run whose page listed more urls than the filter kept has
\* fetched its links and returned.
C16_Witness ==
    /\ pc = "returned"
    /\ taskState # <<>>
    /\ \E i \in DOMAIN evalOutcome : evalOutcome[i] = "threw"
    /\ Cardinality(visitedUrls) > Len(links)

\* C17: in a run of executeWebSearch(), the page a link's task opened is
\* closed by the time that task settles, on every exit path of the task.
C17_PageClosedOnSettle ==
    \A i \in DOMAIN xtask : xtask[i] = "settled" => ~xpageOpen[i]

\* C18: a run of executeWebSearch() that scheduled N links returns N entries,
\* the i-th with the title and url of the i-th link, whether or not the
\* link's visit failed.
C18_OneEntryPerLink ==
    xexit = "end" =>
        /\ Len(xresult.value) = Len(xlinks)
        /\ \A i \in DOMAIN xlinks :
            /\ i \in DOMAIN xresult.value
            /\ xresult.value[i].title = xlinks[i].title
            /\ xresult.value[i].url = xlinks[i].url

\* C19: a link whose in-page extraction gave no article or an empty HTML
\* fragment is reported by search() with content absent.
C19_EmptyExtractionAbsent ==
    (Returned /\ taskState # <<>>) =>
        \A i \in DOMAIN links : \A r \in ExtractorResults :
            (/\ r.content = <<>>
             /\ evalOutcome[i] = "ok"
             /\ taskResult[i] = TaskSuccess(links[i], r, truncate)) =>
                /\ i \in DOMAIN callResult.value
                /\ callResult.value[i].url = links[i].url
                /\ "content" \notin DOMAIN callResult.value[i]

\* C20: every link the extractor of executeWebSearch() passes on to the
\* fetch stage has a title that is non-empty after trimming and a url that
\* parses as an absolute URL.
C20_LinksValidated ==
    \A i \in DOMAIN xlinks :
        /\ Trim(xlinks[i].title) # ""
        /\ isValidUrl(xlinks[i].url)

\* run r's session is in use: between its launch and its close
InUse(r) == runPc[r] \in {"searchPage", "readability", "fetch", "close"}

\* C21: of two tool calls whose runs of search() overlap, each run has its
\* own browser session and its own set of visited urls: a url the other run
\* saw is never dropped from this run's links as a duplicate, and the session
\* a run still uses stays open whatever the other run does, its close on
\* failure included.
C21_RunsIsolated ==
    \A r \in Runs :
        /\ \A s \in Runs \ {r} :
                (IsSet(runBrowser[r]) /\ IsSet(runBrowser[s])) =>
                    runBrowser[r] # runBrowser[s]
        /\ InUse(r) => SessionOpen(r)
        /\ runVisitedUrls[r] =
                {runPageLinks[r][i].url : i \in DOMAIN runPageLinks[r]}
        /\ \A i \in DOMAIN runPageLinks[r] :
                ~shouldSkipDomain(runPageLinks[r][i].url) =>
                    \E k \in DOMAIN runLinks[r] :
                        runLinks[r][k].url = runPageLinks[r][i].url

\* one run has failed and closed its session while a task of the other run,
\* which saw one of the same urls, is still evaluating its page
C21_Witness ==
    \E r \in Runs : \E s \in Runs \ {r} :
        /\ runPc[r] = "returned"
        /\ runCallResult[r].kind = "throw"
        /\ IsSet(runBrowser[r])
        /\ sessions[Get(runBrowser[r])] = "closed"
        /\ runPc[s] = "fetch"
        /\ \E i \in DOMAIN runTaskState[s] : runTaskState[s][i] = "running"
        /\ \E i \in DOMAIN runLinks[s] : runLinks[s][i].url \in runVisitedUrls[r]

====
